---- MODULE Spec2Model ----
(***************************************************************************)
(* Model of the buenosaires monitor: the poll loop of cmd/run.go (runCmd),  *)
(* the change classifiers, the per-artifact pipeline for shell scripts and  *)
(* container files, and the status store of internal/status/status.go.     *)
(*                                                                         *)
(* Strings are sequences of one-character strings, so that HasSuffix,      *)
(* HasPrefix, filepath.Base and filepath.Dir are computed as Go computes    *)
(* them.  Init is the state at the top of the `for` loop of runCmd         *)
(* (run.go:319), with the status store holding no record.                  *)
(***************************************************************************)
EXTENDS Integers, Sequences, FiniteSets, TLC

\* ------------------------------------------------------------------ bounds

\* Number of commits the monitored branch receives after startup.
MaxCommits == 3

\* ------------------------------------------------------------- Go strings

HasSuffix(s, suffix) ==
    /\ Len(s) >= Len(suffix)
    /\ SubSeq(s, Len(s) - Len(suffix) + 1, Len(s)) = suffix

HasPrefix(s, prefix) ==
    /\ Len(s) >= Len(prefix)
    /\ SubSeq(s, 1, Len(prefix)) = prefix

\* Index of the last "/" of s, 0 when there is none.
LastSlash(s) ==
    LET at == {i \in 1..Len(s) : s[i] = "/"}
    IN  IF at = {} THEN 0 ELSE CHOOSE i \in at : \A j \in at : j <= i

\* filepath.Base for a slash-separated path without trailing slashes
\* (the names of a git tree never end in a slash).
FilepathBase(path) ==
    IF path = <<>> THEN <<".">>
    ELSE SubSeq(path, LastSlash(path) + 1, Len(path))

\* filepath.Dir for the same paths: all but the last element, "." when the
\* path has no directory part.
FilepathDir(path) ==
    IF LastSlash(path) = 0 THEN <<".">>
    ELSE IF LastSlash(path) = 1 THEN <<"/">>
    ELSE SubSeq(path, 1, LastSlash(path) - 1)

DotSh == <<".", "s", "h">>
ContainersSlash == <<"C", "o", "n", "t", "a", "i", "n", "e", "r", "s", "/">>
containersSlash == <<"c", "o", "n", "t", "a", "i", "n", "e", "r", "s", "/">>
Dockerfile == <<"D", "o", "c", "k", "e", "r", "f", "i", "l", "e">>
Containerfile == <<"C", "o", "n", "t", "a", "i", "n", "e", "r", "f", "i", "l", "e">>
ContainerColon == <<"c", "o", "n", "t", "a", "i", "n", "e", "r", ":">>
DotLog == <<".", "l", "o", "g">>
DashContainerDotLog ==
    <<"-", "c", "o", "n", "t", "a", "i", "n", "e", "r", ".", "l", "o", "g">>

\* ---------------------------------------------------- repository contents

\* "deploy.sh"
PathDeploy == <<"d", "e", "p", "l", "o", "y", ".", "s", "h">>
\* "Containers/webapp/Dockerfile"
PathWebapp == ContainersSlash \o <<"w", "e", "b", "a", "p", "p", "/">> \o Dockerfile

\* The paths of the repository in the order in which DiffTree walks the two
\* trees (by name: "C" sorts before "d").
PathOrder == <<PathWebapp, PathDeploy>>
Paths == {PathOrder[i] : i \in 1..Len(PathOrder)}

MaxScriptSize == 10 * 1024 * 1024

\* A blob is known by the length of its content.
Blobs == {MaxScriptSize, MaxScriptSize + 1}
NoBlob == 0 - 1

\* A tree gives the blob of every path, by the path's place in PathOrder.
Trees == [1..Len(PathOrder) -> Blobs \cup {NoBlob}]
EmptyTree == [i \in 1..Len(PathOrder) |-> NoBlob]

\* tree.File(name) and file.Contents(): the length of the content.
TreeFile(tree, name) == tree[CHOOSE i \in 1..Len(PathOrder) : PathOrder[i] = name]

\* plumbing.Hash{}: the zero hash.  Commits are numbered from 1.
ZeroHash == 0

\* ------------------------------------------------------- change detection

\* object.DiffTree(lastTree, latestTree): one change per path whose entry
\* differs, in tree-walk order.  Change.Action() is Insert when only the
\* To side exists, Delete when only the From side exists, Modify otherwise;
\* To.Name is empty for a Delete.
ChangeOf(from, to, i) ==
    IF from[i] = NoBlob
    THEN [action |-> "Insert", fromName |-> <<>>, toName |-> PathOrder[i]]
    ELSE IF to[i] = NoBlob
    THEN [action |-> "Delete", fromName |-> PathOrder[i], toName |-> <<>>]
    ELSE [action |-> "Modify", fromName |-> PathOrder[i], toName |-> PathOrder[i]]

RECURSIVE DiffFrom(_, _, _)
DiffFrom(from, to, i) ==
    IF i > Len(PathOrder) THEN <<>>
    ELSE IF from[i] = to[i] THEN DiffFrom(from, to, i + 1)
    ELSE <<ChangeOf(from, to, i)>> \o DiffFrom(from, to, i + 1)

DiffTree(from, to) == DiffFrom(from, to, 1)

\* The action test accepting a modification as well.
isNewOrModifiedShellScript(change) ==
    (change.action = "Insert" \/ change.action = "Modify") /\ HasSuffix(change.toName, DotSh)
\* The action test replaced by a test of both names of the change.
isShellScriptByEitherName(change) ==
    HasSuffix(change.toName, DotSh) \/ HasSuffix(change.fromName, DotSh)
isNewShellScript(change) ==
    change.action = "Insert" /\ HasSuffix(change.toName, DotSh)

\* The prefix test written without the trailing slash.
isContainerFileByLoosePrefix(change) ==
    LET path == change.toName
        filename == FilepathBase(path)
        isContainerFile == filename = Dockerfile \/ filename = Containerfile
    IN  IF /\ ~HasPrefix(path, SubSeq(ContainersSlash, 1, 10))
           /\ ~HasPrefix(path, SubSeq(containersSlash, 1, 10))
        THEN FALSE
        ELSE (change.action = "Insert" \/ change.action = "Modify") /\ isContainerFile
isNewOrModifiedContainerFile(change) ==
    LET path == change.toName
        filename == FilepathBase(path)
        isContainerFile == filename = Dockerfile \/ filename = Containerfile
    IN  IF ~HasPrefix(path, ContainersSlash) /\ ~HasPrefix(path, containersSlash)
        THEN FALSE
        ELSE (change.action = "Insert" \/ change.action = "Modify") /\ isContainerFile

\* containerName := filepath.Base(filepath.Dir(containerPath))
ContainerName(containerPath) == FilepathBase(FilepathDir(containerPath))

\* statusKey := fmt.Sprintf("container:%s", containerName)
StatusKey(containerPath) == ContainerColon \o ContainerName(containerPath)

\* ----------------------------------------------------------- status store

NoStatus == [s \in {} |-> 0]

\* Status.UpdateScriptStatus: the entry of scriptName is replaced by a new
\* ScriptStatus holding the four values and time.Now().
UpdateScriptStatus(s, scriptName, lintStatus, testStatus, runStatus, overallStatus, t) ==
    [k \in DOMAIN s \cup {scriptName} |->
        IF k = scriptName
        THEN [LintStatus |-> lintStatus, TestStatus |-> testStatus,
              RunStatus |-> runStatus, Timestamp |-> t,
              OverallStatus |-> overallStatus]
        ELSE s[k]]

\* Status.GetScriptStatus(name) -> (ScriptStatus, ok): a lookup in the map.
\* found is FALSE and the record is the zero ScriptStatus when name is absent.
ZeroScriptStatus ==
    [LintStatus |-> "", TestStatus |-> "", RunStatus |-> "", Timestamp |-> 0,
     OverallStatus |-> ""]

GetScriptStatus(s, name) ==
    IF name \in DOMAIN s THEN [s |-> s[name], ok |-> TRUE]
    ELSE [s |-> ZeroScriptStatus, ok |-> FALSE]

\* filepath.Clean on the repository paths the commands pass.
FilepathClean(path) ==
    CASE path = "./" -> "."
      [] path = "repo/" -> "repo"
      [] path = "repo/../repo" -> "repo"
      [] OTHER -> path

\* getStatusFilePath: error unless the path is clean and is neither ".." nor ".".
GetStatusFilePathErr(repoPath) ==
    FilepathClean(repoPath) # repoPath \/ repoPath = ".." \/ repoPath = "."

\* The repository path runCmd hands to LoadStatus, SaveStatus and LoadRepoConfig.
RepoPath == "."

\* A byte that is no valid UTF-8 (a file name in a legacy encoding), and
\* U+FFFD, the replacement rune.
InvalidByte == "0xE9"
ReplacementChar == "U+FFFD"

\* encoding/json writes a Go string as a JSON string coerced to valid UTF-8:
\* every invalid byte becomes U+FFFD.  Map keys are written the same way.
JsonString(str) ==
    [i \in 1..Len(str) |-> IF str[i] = InvalidByte THEN ReplacementChar ELSE str[i]]

\* time.Time <-> its RFC 3339 text with nanoseconds.
FormatTime(t) == <<"RFC3339Nano", t>>
ParseTime(text) == text[2]

\* A ScriptStatus <-> the JSON object with the names of the struct tags.
MarshalScriptStatus(r) ==
    [lint_status |-> JsonString(<<r.LintStatus>>)[1],
     test_status |-> JsonString(<<r.TestStatus>>)[1],
     run_status |-> JsonString(<<r.RunStatus>>)[1],
     timestamp |-> FormatTime(r.Timestamp),
     overall_status |-> JsonString(<<r.OverallStatus>>)[1]]
UnmarshalScriptStatus(o) ==
    [LintStatus |-> o.lint_status, TestStatus |-> o.test_status,
     RunStatus |-> o.run_status, Timestamp |-> ParseTime(o.timestamp),
     OverallStatus |-> o.overall_status]

\* What is at .buenosaires/status.json: no file, a file that is no JSON
\* document of the Status shape, or a document whose "scripts" member is
\* missing, null or an object with the given members.
NoFile == [kind |-> "absent", scripts |-> "missing", members |-> NoStatus]
Malformed == [kind |-> "malformed", scripts |-> "missing", members |-> NoStatus]
Document(scripts, members) == [kind |-> "document", scripts |-> scripts, members |-> members]

\* json.MarshalIndent(s): the document {"scripts": ...}, null for a nil map,
\* else one member per key.
MarshalIndent(s, isNil) ==
    IF isNil THEN Document("null", NoStatus)
    ELSE Document("object",
            [k \in {JsonString(key) : key \in DOMAIN s} |->
                MarshalScriptStatus(s[CHOOSE key \in DOMAIN s : JsonString(key) = k])])

\* json.Unmarshal(data, &status): Scripts stays nil unless the document has a
\* "scripts" object.  A nil map reads as an empty one.
Unmarshal(doc) ==
    IF doc.kind = "malformed" THEN [Scripts |-> NoStatus, isNil |-> TRUE, err |-> TRUE]
    ELSE IF doc.scripts # "object" THEN [Scripts |-> NoStatus, isNil |-> TRUE, err |-> FALSE]
    ELSE [Scripts |-> [k \in DOMAIN doc.members |-> UnmarshalScriptStatus(doc.members[k])],
          isNil |-> FALSE, err |-> FALSE]

\* LoadStatus(repoPath): (*Status, error).  With an error the *Status is nil.
LoadStatus(file, repoPath, ioErr) ==
    IF GetStatusFilePathErr(repoPath) THEN [Scripts |-> NoStatus, isNil |-> TRUE, err |-> TRUE]
    ELSE IF file.kind = "absent" THEN [Scripts |-> NoStatus, isNil |-> FALSE, err |-> FALSE]
    ELSE IF ioErr THEN [Scripts |-> NoStatus, isNil |-> TRUE, err |-> TRUE]
    ELSE Unmarshal(file)

\* Status.SaveStatus(repoPath): the snapshot file after the call.  Nothing is
\* written when the path is refused or the write fails.
SaveStatus(file, s, isNil, repoPath, ioErr) ==
    IF GetStatusFilePathErr(repoPath) \/ ioErr THEN file ELSE MarshalIndent(s, isNil)

\* ------------------------------------------------- status values of run.go

\* The (lint, test, run, overall) arguments of the UpdateScriptStatus calls.
StatusPending ==
    [lint |-> "pending", test |-> "skipped", run |-> "pending", overall |-> "pending"]
StatusTooLarge ==
    [lint |-> "failure", test |-> "skipped", run |-> "pending", overall |-> "failure"]
StatusLintFailed ==
    [lint |-> "failure", test |-> "skipped", run |-> "pending", overall |-> "failure"]
StatusLintPassed ==
    [lint |-> "success", test |-> "skipped", run |-> "pending", overall |-> "pending"]
\* The final update of a failed run written with the success line's overall value.
StatusRunFailedAsSuccess ==
    [lint |-> "success", test |-> "skipped", run |-> "failure", overall |-> "success"]
StatusRunFailed ==
    [lint |-> "success", test |-> "skipped", run |-> "failure", overall |-> "failure"]
StatusRunSucceeded ==
    [lint |-> "success", test |-> "skipped", run |-> "success", overall |-> "success"]

\* The skip check left out.
AlreadySucceededNever(s, key) == FALSE
\* if s, ok := status.GetScriptStatus(key); ok && s.OverallStatus == "success"
AlreadySucceeded(s, key) ==
    GetScriptStatus(s, key).ok /\ GetScriptStatus(s, key).s.OverallStatus = "success"

\* The size check written with >=.
TooLargeInclusive(size) == size >= MaxScriptSize
\* if len(content) > MaxScriptSize
TooLarge(size) == size > MaxScriptSize

\* The comparison of the two hashes left out.
TipChangedAlways(latest, last) == TRUE
\* if latestCommitHash != lastCommitHash
TipChanged(latest, last) == latest # last

\* ------------------------------------------------------------------ plugins

\* ShellPlugin.LintAndValidate.  syntaxOK: `bash -n` exited 0.  shellcheck:
\* how the linter ended: "exit0", "exit1", "exit2", "killed" (an ExitError
\* whose ExitCode() is -1) or "notstarted" (not an ExitError).
ShellcheckOutcomes == {"exit0", "exit1", "exit2", "killed", "notstarted"}

ExitCode(outcome) ==
    CASE outcome = "exit0" -> 0
      [] outcome = "exit1" -> 1
      [] outcome = "exit2" -> 2
      [] outcome = "killed" -> 0 - 1
      [] OTHER -> 0

\* Every exit status of the linter but 0 taken as an error.
ShellLintStrict(syntaxOK, shellcheck) ==
    IF ~syntaxOK
    THEN [out |-> <<"bash -n output">>, err |-> TRUE]
    ELSE LET out == <<"bash -n output", "Syntax check passed.", "shellcheck output">>
         IN  IF shellcheck = "exit0"
             THEN [out |-> out \o <<"Linting completed.">>, err |-> FALSE]
             ELSE [out |-> out, err |-> TRUE]

\* A linter that could not be started writes nothing.
ShellLintAndValidate(syntaxOK, shellcheck) ==
    IF ~syntaxOK
    THEN [out |-> <<"bash -n output">>, err |-> TRUE]
    ELSE LET syntax == <<"bash -n output", "Syntax check passed.">>
             out == syntax \o <<"shellcheck output">>
         IN  IF shellcheck = "exit0"
             THEN [out |-> out \o <<"Linting completed.">>, err |-> FALSE]
             ELSE IF shellcheck = "notstarted"
             THEN [out |-> syntax, err |-> TRUE]
             ELSE IF ExitCode(shellcheck) > 1
             THEN [out |-> out, err |-> TRUE]
             ELSE [out |-> out \o <<"Linting completed.">>, err |-> FALSE]

\* ShellPlugin.Run: `sudo bash script` or `bash script`; the error is the
\* command's.
ShellRun(allowSudo, exitOK) ==
    [out |-> <<"script output">>, err |-> ~exitOK,
     cmd |-> IF allowSudo THEN "sudo bash" ELSE "bash"]

\* DockerPlugin.LintAndValidate.  fileExists: os.Stat of the path in the
\* working directory.  hadolint: "clean" (exit 0, no output), "notes" (exit 0
\* with output), "warnings" (exit > 0, no "error:" in the output), "errors"
\* (exit > 0 with "error:"), "notstarted".  The pipeline is run on three of
\* the five.
HadolintOutcomes == {"clean", "errors", "notstarted"}

DockerLintAndValidate(fileExists, hadolint) ==
    IF ~fileExists THEN [out |-> <<>>, err |-> TRUE]
    ELSE LET head == <<"Validating container file">>
         IN  CASE hadolint = "errors" ->
                    [out |-> head \o <<"hadolint output">>, err |-> TRUE]
               [] hadolint = "warnings" ->
                    [out |-> head \o <<"hadolint output",
                                       "Linting completed with warnings.",
                                       "Validation passed.">>, err |-> FALSE]
               [] hadolint = "notstarted" ->
                    [out |-> head \o <<"Warning: hadolint not found, skipping linting",
                                       "Validation passed.">>, err |-> FALSE]
               [] hadolint = "clean" ->
                    [out |-> head \o <<"Linting completed - no issues found.",
                                       "Validation passed.">>, err |-> FALSE]
               [] OTHER ->
                    [out |-> head \o <<"hadolint output", "Linting completed.",
                                       "Validation passed.">>, err |-> FALSE]

\* The container started after every successful build.
DockerRunAlways(buildOK, autoRun, runOK) ==
    LET built == <<"=== BUILD OUTPUT ===", "build output">>
    IN  IF ~buildOK THEN [out |-> built, err |-> TRUE, started |-> FALSE]
        ELSE [out |-> built \o <<"Successfully built image", "=== RUN OUTPUT ===",
                                 "Successfully started container">>,
              err |-> ~runOK, started |-> runOK]

\* DockerPlugin.Run: build, then `docker run` only when autoRun.
DockerRun(buildOK, autoRun, runOK) ==
    LET built == <<"=== BUILD OUTPUT ===", "build output">>
    IN  IF ~buildOK THEN [out |-> built, err |-> TRUE, started |-> FALSE]
        ELSE IF autoRun
        THEN IF runOK
             THEN [out |-> built \o <<"Successfully built image", "=== RUN OUTPUT ===",
                                      "Successfully started container">>,
                   err |-> FALSE, started |-> TRUE]
             ELSE [out |-> built \o <<"Successfully built image", "=== RUN OUTPUT ===">>,
                   err |-> TRUE, started |-> FALSE]
        ELSE [out |-> built \o <<"Successfully built image",
                                 "Container not started (auto_run disabled). Image is ready to use.">>,
              err |-> FALSE, started |-> FALSE]

\* ------------------------------------------------------------ configuration

\* GlobalConfig (LogDir, Plugins["docker"]) and the RepoConfig of the
\* repository's config.toml, as far as runCmd reads them, and the
\* SyncInterval of the GlobalConfig, in seconds, 0 where the key is unset.
ZeroRepoConfig ==
    [AllowSudo |-> FALSE, LogDir |-> "", DockerEnabled |-> FALSE, DockerAutoRun |-> FALSE]

Configs ==
    { [global |-> [LogDir |-> "/var/log/buenosaires", docker |-> TRUE, SyncInterval |-> 0],
       repo |-> [AllowSudo |-> FALSE, LogDir |-> "", DockerEnabled |-> TRUE,
                 DockerAutoRun |-> FALSE]],
      [global |-> [LogDir |-> "", docker |-> TRUE, SyncInterval |-> 60],
       repo |-> [AllowSudo |-> TRUE, LogDir |-> "logs", DockerEnabled |-> TRUE,
                 DockerAutoRun |-> TRUE]],
      [global |-> [LogDir |-> "", docker |-> FALSE, SyncInterval |-> 300],
       repo |-> [AllowSudo |-> FALSE, LogDir |-> "", DockerEnabled |-> TRUE,
                 DockerAutoRun |-> FALSE]] }

\* The fields toml.DecodeFile had set in the RepoConfig when it returned its
\* error: none when the file is missing or is no TOML, else those of the keys
\* it came to before the key whose value does not fit its field.  Two cases
\* are drawn: nothing was set, allow_sudo was set.
DecodedAtError == {{}, {"AllowSudo"}}

\* config.LoadRepoConfig: `var config RepoConfig`, decoded into and returned
\* as it is, with the error or without.
LoadRepoConfig(file, loadErr, decoded) ==
    IF ~loadErr THEN file
    ELSE [f \in DOMAIN file |-> IF f \in decoded THEN file[f] ELSE ZeroRepoConfig[f]]

\* logDir := repoConfig.LogDir; if logDir == "" { logDir = globalConfig.LogDir }
LogDirOf(repo, global) == IF repo.LogDir = "" THEN global.LogDir ELSE repo.LogDir

\* filepath.Join(logDir, fmt.Sprintf("%s.log", filepath.Base(scriptName)))
ShellLogFile(logDir, scriptName) ==
    [dir |-> logDir, file |-> FilepathBase(scriptName) \o DotLog]

\* filepath.Join(logDir, fmt.Sprintf("%s-container.log", containerName))
ContainerLogFile(logDir, containerName) ==
    [dir |-> logDir, file |-> containerName \o DashContainerDotLog]

\* os.WriteFile(logFile, logContent): the log directory after the call.
WriteLog(dir, logFile, lintOut, execOut, ioErr) ==
    IF ioErr THEN dir
    ELSE [f \in DOMAIN dir \cup {logFile} |->
            IF f = logFile THEN [lint |-> lintOut, exec |-> execOut] ELSE dir[f]]

\* --------------------------------------------------------------------- state

VARIABLES
    commits,           \* the branch: commits[h] is the tree of commit h
    globalConfig,      \* the GlobalConfig loaded at startup
    repoConfigFile,    \* the repository's config.toml
    pc,                \* where runCmd's loop stands
    latestCommitHash,  \* the tip resolved in this tick
    lastCommitHash,    \* the last processed commit
    changes,           \* the change set of the pass
    idx,               \* index of the change the pass is at
    repoConfig,        \* the RepoConfig loaded for the pass
    lintOutput,        \* output of the validation of the current artifact
    tmpfileName,       \* name of the current artifact's temporary file
    status,            \* status.Scripts, in memory
    statusFile,        \* what is at .buenosaires/status.json
    scriptsNil,        \* status.Scripts is a nil map
    tmpFiles,          \* the temporary files that exist
    logs,              \* the log files that exist, with their content
    now,               \* the clock read by time.Now()
    hist,              \* per identifier: number of update and save calls, time of the first update
    trace,             \* per change of the pass: what the pipeline did with it
    tick,              \* how the current tick went
    observed           \* what readers and callers were given: reads, loads, plugin results

repoVars == <<commits, globalConfig, repoConfigFile>>
loopVars == <<pc, latestCommitHash, lastCommitHash, changes, idx, repoConfig,
              lintOutput, tmpfileName>>
storeVars == <<status, statusFile, scriptsNil, now, hist>>
fileVars == <<tmpFiles, logs>>
vars == <<repoVars, loopVars, storeVars, fileVars, trace, tick, observed>>

\* What the pipeline did with one change: whether it was skipped or
\* attempted, the overall status found at the skip check, the number of
\* update calls, how reading the content, os.CreateTemp, LintAndValidate and
\* Run ended, and whether os.WriteFile was called for its log; how
\* LoadRepoConfig ended for the pass, the command Run started and whether the
\* sudo warning was logged before it.
NoTrace ==
    [disposition |-> "none", seen |-> "none", updates |-> 0, read |-> "none",
     tmp |-> "none", validate |-> "none", run |-> "none", logged |-> FALSE,
     config |-> "none", cmd |-> "none", audit |-> FALSE]

Merge(r, d) == [k \in DOMAIN r |-> IF k \in DOMAIN d THEN d[k] ELSE r[k]]

\* The overall status recorded for key, "absent" when there is none.
Seen(key) == IF key \in DOMAIN status THEN status[key].OverallStatus ELSE "absent"

Change == changes[idx]
LatestTree == commits[latestCommitHash]

\* `break` written for `continue`: the loop over the changes ends.
ContinueAsBreak(i) == Len(changes) + 1
\* `continue` in the loop over the changes: on to the next change.
Continue(i) == i + 1

\* The assignment at the end of the pass left out.
CommitAfterPassKept(last, latest) == last
\* lastCommitHash = latestCommitHash, at the end of the pass (run.go:620)
CommitAfterPass(last, latest) == latest

\* The error paths resetting the hash instead of advancing it.
CommitAfterLoadErrorReset(last, latest) == ZeroHash
\* lastCommitHash = latestCommitHash, where the commit, a tree or the diff
\* could not be obtained (run.go:348, 357, 366, 375, 384)
CommitAfterLoadError(last, latest) == latest

\* The calls made for key so far, after one more UpdateScriptStatus and
\* `saved` more SaveStatus calls.
Called(key, saved) ==
    [k \in DOMAIN hist \cup {key} |->
        IF k # key THEN hist[k]
        ELSE IF key \in DOMAIN hist
        THEN [hist[key] EXCEPT !.updates = @ + 1, !.saves = @ + saved]
        ELSE [updates |-> 1, saves |-> saved, first |-> now]]

\* UpdateScriptStatus with the SaveStatus call after it left out.
UpdateWithoutSave(key, st, saveErr) ==
    /\ status' = UpdateScriptStatus(status, key, st.lint, st.test, st.run, st.overall, now)
    /\ statusFile' = statusFile
    /\ UNCHANGED scriptsNil
    /\ now' = now + 1
    /\ hist' = Called(key, 0)
\* The update undone when SaveStatus returns an error.
UpdateRolledBack(key, st, saveErr) ==
    /\ status' = IF GetStatusFilePathErr(RepoPath) \/ saveErr THEN status
                  ELSE UpdateScriptStatus(status, key, st.lint, st.test, st.run, st.overall, now)
    /\ statusFile' = SaveStatus(statusFile, status', scriptsNil, RepoPath, saveErr)
    /\ UNCHANGED scriptsNil
    /\ now' = now + 1
    /\ hist' = Called(key, 1)
\* UpdateScriptStatus followed by SaveStatus, as every call site has them.
Update(key, st, saveErr) ==
    /\ status' = UpdateScriptStatus(status, key, st.lint, st.test, st.run, st.overall, now)
    /\ statusFile' = SaveStatus(statusFile, status', scriptsNil, RepoPath, saveErr)
    /\ UNCHANGED scriptsNil
    /\ now' = now + 1
    /\ hist' = Called(key, 1)

Mark(d) == trace' = [trace EXCEPT ![idx] = Merge(@, d)]
Updated == trace[idx].updates + 1

\* os.Remove left to a defer that runs when runCmd returns, as the loop had
\* it before (run.go:165-178): nothing is removed while the loop runs.
OsRemoveDeferred(files, name) == files
\* os.Remove(tmpfileName): the temporary files after the call.
OsRemove(files, name) == files \ {name}

\* The error of LintAndValidate ignored.
ValidationFailedNever(err) == FALSE
\* if err != nil, after LintAndValidate (run.go:460, 555)
ValidationFailed(err) == err

\* lastCommitHash left at its zero value at startup.
StartupHashAbsent(branchRef) == ZeroHash
\* var lastCommitHash plumbing.Hash; if branchRef != nil { lastCommitHash =
\* branchRef.Hash() }: repo.Reference returned no error, so branchRef is set.
StartupHash(branchRef) == branchRef

\* The trees the branch may hold at startup besides the empty one: deploy.sh
\* is there, the container file is there or not.
StartupTrees == {t \in Trees : t[2] = MaxScriptSize /\ t[1] \in {NoBlob, MaxScriptSize}}
StartupConfigs == {c \in Configs : c.global.docker /\ ~c.repo.AllowSudo}

\* runCmd up to the loop, with the branch at a tree of `trees` and the
\* configuration one of `configs`.
Boot(trees, configs) ==
    /\ commits \in {<<t>> : t \in trees}
    /\ \E c \in configs : globalConfig = c.global /\ repoConfigFile = c.repo
    /\ pc = "fetch"
    /\ latestCommitHash = ZeroHash
    /\ lastCommitHash = StartupHash(1)
    /\ changes = <<>>
    /\ idx = 1
    /\ repoConfig = ZeroRepoConfig
    /\ lintOutput = <<>>
    /\ tmpfileName = 0
    /\ status = NoStatus
    /\ statusFile = NoFile
    /\ scriptsNil = FALSE
    /\ tmpFiles = {}
    /\ logs = [f \in {} |-> 0]
    /\ now = 1
    /\ hist = [k \in {} |-> 0]
    /\ trace = <<>>
    /\ tick = "none"
    /\ observed = <<>>

Init == Boot({EmptyTree}, Configs)

\* Startup on a branch that already holds files.
InitStartup == Boot(StartupTrees, StartupConfigs)

\* ------------------------------------------------------------- environment

\* A commit lands on the monitored branch: one path is added, changed or
\* removed.  The loop reads the branch only when it fetches, so commits are
\* taken between ticks.
Commit ==
    /\ pc = "fetch"
    /\ Len(commits) < MaxCommits + 1
    /\ \E p \in 1..Len(PathOrder), b \in Blobs \cup {NoBlob} :
          /\ b # commits[Len(commits)][p]
          /\ commits' = Append(commits, [commits[Len(commits)] EXCEPT ![p] = b])
    /\ UNCHANGED <<observed, globalConfig, repoConfigFile, loopVars, storeVars, fileVars, trace, tick>>

\* ---------------------------------------------------------------- poll loop

\* repo.Fetch, repo.Reference and the comparison with lastCommitHash.  A
\* fetch error other than NoErrAlreadyUpToDate, or a reference error, sleeps
\* and starts the next iteration.
Fetch ==
    /\ pc = "fetch"
    /\ \E fetchErr \in {"nil", "NoErrAlreadyUpToDate", "error"}, refErr \in BOOLEAN :
          IF fetchErr # "nil" /\ fetchErr # "NoErrAlreadyUpToDate"
          THEN /\ pc' = "sleep"
               /\ tick' = "fetcherr"
               /\ latestCommitHash' = ZeroHash
          ELSE IF refErr
          THEN /\ pc' = "sleep"
               /\ tick' = "referr"
               /\ latestCommitHash' = ZeroHash
          ELSE /\ latestCommitHash' = Len(commits)
               /\ IF TipChanged(latestCommitHash', lastCommitHash)
                  THEN pc' = "commit" /\ tick' = "new"
                  ELSE pc' = "sleep" /\ tick' = "same"
    /\ UNCHANGED <<observed, repoVars, lastCommitHash, changes, idx, repoConfig,
                   lintOutput, tmpfileName, storeVars, fileVars, trace>>

\* CommitObject, Tree, DiffTree and LoadRepoConfig for the new tip.
LoadCommit ==
    /\ pc = "commit"
    /\ \E failure \in {"none", "latestCommit", "lastCommit", "latestTree", "lastTree", "diff"},
          loadErr \in BOOLEAN, decoded \in DecodedAtError :
          IF failure # "none"
          THEN /\ failure \in {"lastCommit", "lastTree"} => lastCommitHash # ZeroHash
               /\ lastCommitHash' = CommitAfterLoadError(lastCommitHash, latestCommitHash)
               /\ pc' = "fetch"
               /\ tick' = "loaderr"
               /\ UNCHANGED <<changes, idx, repoConfig, trace>>
          ELSE /\ changes' = DiffTree(IF lastCommitHash = ZeroHash THEN EmptyTree
                                      ELSE commits[lastCommitHash], LatestTree)
               /\ repoConfig' = LoadRepoConfig(repoConfigFile, loadErr, decoded)
               /\ idx' = 1
               /\ trace' = [i \in 1..Len(changes') |->
                              [NoTrace EXCEPT !.config = IF loadErr THEN "err" ELSE "ok"]]
               /\ pc' = "change"
               /\ tick' = "new"
               /\ UNCHANGED lastCommitHash
    /\ UNCHANGED <<observed, repoVars, latestCommitHash, lintOutput, tmpfileName, storeVars, fileVars>>

\* The changes are exhausted: lastCommitHash = latestCommitHash.
EndPass ==
    /\ pc = "change"
    /\ idx > Len(changes)
    /\ lastCommitHash' = CommitAfterPass(lastCommitHash, latestCommitHash)
    /\ pc' = "sleep"
    /\ tick' = "pass"
    /\ UNCHANGED <<observed, repoVars, latestCommitHash, changes, idx, repoConfig,
                   lintOutput, tmpfileName, storeVars, fileVars, trace>>

\* Seconds.
DefaultPollInterval == 10
ErrorSleep == 10

\* The error sleeps doubled, as a backoff.
SleepDurationBackoff(t) ==
    IF t \in {"fetcherr", "referr"} THEN 2 * ErrorSleep ELSE DefaultPollInterval
\* The argument of the time.Sleep that ends a tick: the literal of the fetch
\* and reference error paths (run.go:326, 334), DefaultPollInterval at the end
\* of the loop body (run.go:623).
SleepDuration(t) ==
    IF t \in {"fetcherr", "referr"} THEN ErrorSleep ELSE DefaultPollInterval

\* time.Sleep, then the next iteration: the iteration's locals are gone.
Sleep ==
    /\ pc = "sleep"
    /\ pc' = "fetch"
    /\ latestCommitHash' = ZeroHash
    /\ changes' = <<>>
    /\ idx' = 1
    /\ repoConfig' = ZeroRepoConfig
    /\ trace' = <<>>
    /\ tick' = "none"
    /\ UNCHANGED <<observed, repoVars, lastCommitHash, lintOutput, tmpfileName, storeVars, fileVars>>

\* ------------------------------------------------------- shell pipeline

\* A new shell script: skipped when already successful, otherwise recorded
\* as pending (run.go:396-408).
ShellDiscover ==
    /\ pc = "change"
    /\ idx <= Len(changes)
    /\ isNewShellScript(Change)
    /\ LET scriptName == Change.toName
       IN  IF AlreadySucceeded(status, scriptName)
           THEN /\ Mark([disposition |-> "skipped", seen |-> Seen(scriptName)])
                /\ idx' = Continue(idx)
                /\ pc' = "change"
                /\ UNCHANGED storeVars
           ELSE /\ \E saveErr \in BOOLEAN : Update(scriptName, StatusPending, saveErr)
                /\ Mark([disposition |-> "attempted", seen |-> Seen(scriptName),
                         updates |-> Updated])
                /\ pc' = "shell_read"
                /\ UNCHANGED idx
    /\ UNCHANGED <<observed, repoVars, latestCommitHash, lastCommitHash, changes, repoConfig,
                   lintOutput, tmpfileName, fileVars, tick>>

\* Content from the tree, the size check and the temporary file
\* (run.go:410-450).
ShellRead ==
    /\ pc = "shell_read"
    /\ LET scriptName == Change.toName
           name == CHOOSE n \in 1..(Cardinality(tmpFiles) + 1) : n \notin tmpFiles
       IN  \E readErr \in {"none", "file", "contents"},
              tmpErr \in {"none", "create", "write", "close"},
              saveErr \in BOOLEAN :
              IF readErr # "none"
              THEN /\ Mark([read |-> "err"])
                   /\ idx' = Continue(idx)
                   /\ pc' = "change"
                   /\ UNCHANGED <<storeVars, tmpFiles, tmpfileName>>
              ELSE IF TooLarge(TreeFile(LatestTree, scriptName))
              THEN /\ Update(scriptName, StatusTooLarge, saveErr)
                   /\ Mark([read |-> "ok", updates |-> Updated])
                   /\ idx' = Continue(idx)
                   /\ pc' = "change"
                   /\ UNCHANGED <<tmpFiles, tmpfileName>>
              ELSE IF tmpErr = "create"
              THEN /\ Mark([read |-> "ok", tmp |-> "failed"])
                   /\ idx' = Continue(idx)
                   /\ pc' = "change"
                   /\ UNCHANGED <<storeVars, tmpFiles, tmpfileName>>
              ELSE IF tmpErr # "none"
              THEN \* the file was created, and is removed again on the error path
                   /\ Mark([read |-> "ok", tmp |-> "created"])
                   /\ tmpFiles' = OsRemove(tmpFiles \cup {name}, name)
                   /\ idx' = Continue(idx)
                   /\ pc' = "change"
                   /\ UNCHANGED <<storeVars, tmpfileName>>
              ELSE /\ tmpFiles' = tmpFiles \cup {name}
                   /\ tmpfileName' = name
                   /\ Mark([read |-> "ok", tmp |-> "created"])
                   /\ pc' = "shell_validate"
                   /\ UNCHANGED <<storeVars, idx>>
    /\ UNCHANGED <<observed, repoVars, latestCommitHash, lastCommitHash, changes, repoConfig,
                   lintOutput, logs, tick>>

\* plugin.LintAndValidate(tmpfileName) and the update that follows
\* (run.go:459-473).
ShellValidate ==
    /\ pc = "shell_validate"
    /\ LET scriptName == Change.toName
       IN  \E syntaxOK \in BOOLEAN, shellcheck \in ShellcheckOutcomes, saveErr \in BOOLEAN :
              LET r == ShellLintAndValidate(syntaxOK, shellcheck)
              IN  IF ValidationFailed(r.err)
                  THEN /\ Update(scriptName, StatusLintFailed, saveErr)
                       /\ Mark([validate |-> IF r.err THEN "err" ELSE "ok",
                                updates |-> Updated])
                       /\ tmpFiles' = OsRemove(tmpFiles, tmpfileName)
                       /\ tmpfileName' = 0
                       /\ lintOutput' = <<>>
                       /\ idx' = Continue(idx)
                       /\ pc' = "change"
                  ELSE /\ Update(scriptName, StatusLintPassed, saveErr)
                       /\ Mark([validate |-> IF r.err THEN "err" ELSE "ok",
                                updates |-> Updated])
                       /\ lintOutput' = r.out
                       /\ pc' = "shell_execute"
                       /\ UNCHANGED <<tmpFiles, tmpfileName, idx>>
    /\ UNCHANGED <<observed, repoVars, latestCommitHash, lastCommitHash, changes, repoConfig,
                   logs, tick>>

\* plugin.Run, the final update, the removal of the temporary file and the
\* log file (run.go:475-516).
ShellExecute ==
    /\ pc = "shell_execute"
    /\ LET scriptName == Change.toName
           logDir == LogDirOf(repoConfig, globalConfig)
       IN  \E exitOK \in BOOLEAN, saveErr \in BOOLEAN, logErr \in BOOLEAN :
              LET r == ShellRun(repoConfig.AllowSudo, exitOK)
              IN  /\ Update(scriptName,
                            IF r.err THEN StatusRunFailed ELSE StatusRunSucceeded, saveErr)
                  /\ Mark([run |-> IF r.err THEN "err" ELSE "ok", updates |-> Updated,
                           logged |-> logDir # "", cmd |-> r.cmd,
                           audit |-> repoConfig.AllowSudo])
                  /\ logs' = IF logDir # ""
                             THEN WriteLog(logs, ShellLogFile(logDir, scriptName),
                                           lintOutput, r.out, logErr)
                             ELSE logs
    /\ tmpFiles' = OsRemove(tmpFiles, tmpfileName)
    /\ tmpfileName' = 0
    /\ lintOutput' = <<>>
    /\ pc' = "container"
    /\ UNCHANGED <<observed, repoVars, latestCommitHash, lastCommitHash, changes, idx, repoConfig, tick>>

\* --------------------------------------------------- container pipeline

DockerOn == repoConfig.DockerEnabled /\ globalConfig.docker

\* The loop body reaches `if repoConfig.Docker.Enabled && ...` after the
\* shell branch ran to its end, or at once when the change is no new script.
AtContainerCheck ==
    \/ pc = "container"
    \/ pc = "change" /\ idx <= Len(changes) /\ ~isNewShellScript(Change)

\* A new or modified container file: skipped when already successful,
\* otherwise recorded as pending (run.go:520-538).
ContainerDiscover ==
    /\ AtContainerCheck
    /\ DockerOn
    /\ isNewOrModifiedContainerFile(Change)
    /\ LET statusKey == StatusKey(Change.toName)
       IN  IF AlreadySucceeded(status, statusKey)
           THEN /\ Mark([disposition |-> "skipped", seen |-> Seen(statusKey)])
                /\ idx' = Continue(idx)
                /\ pc' = "change"
                /\ UNCHANGED storeVars
           ELSE /\ \E saveErr \in BOOLEAN : Update(statusKey, StatusPending, saveErr)
                /\ Mark([disposition |-> "attempted", seen |-> Seen(statusKey),
                         updates |-> Updated])
                /\ pc' = "container_validate"
                /\ UNCHANGED idx
    /\ UNCHANGED <<observed, repoVars, latestCommitHash, lastCommitHash, changes, repoConfig,
                   lintOutput, tmpfileName, fileVars, tick>>

\* Neither plugin takes the change: the loop body ends.
NotContainer ==
    /\ AtContainerCheck
    /\ ~(DockerOn /\ isNewOrModifiedContainerFile(Change))
    /\ idx' = idx + 1
    /\ pc' = "change"
    /\ UNCHANGED <<observed, repoVars, latestCommitHash, lastCommitHash, changes, repoConfig,
                   lintOutput, tmpfileName, storeVars, fileVars, trace, tick>>

\* latestTree.File, dockerPlugin.LintAndValidate and the update that follows
\* (run.go:540-567).
ContainerValidate ==
    /\ pc = "container_validate"
    /\ LET statusKey == StatusKey(Change.toName)
       IN  \E treeFileErr \in BOOLEAN, fileExists \in BOOLEAN, hadolint \in HadolintOutcomes,
              saveErr \in BOOLEAN :
              LET r == DockerLintAndValidate(fileExists, hadolint)
              IN  IF treeFileErr
                  THEN /\ Mark([read |-> "err"])
                       /\ idx' = Continue(idx)
                       /\ pc' = "change"
                       /\ UNCHANGED <<storeVars, lintOutput>>
                  ELSE IF ValidationFailed(r.err)
                  THEN /\ Update(statusKey, StatusLintFailed, saveErr)
                       /\ Mark([read |-> "ok", validate |-> IF r.err THEN "err" ELSE "ok",
                                updates |-> Updated])
                       /\ idx' = Continue(idx)
                       /\ pc' = "change"
                       /\ UNCHANGED lintOutput
                  ELSE /\ Update(statusKey, StatusLintPassed, saveErr)
                       /\ Mark([read |-> "ok", validate |-> IF r.err THEN "err" ELSE "ok",
                                updates |-> Updated])
                       /\ lintOutput' = r.out
                       /\ pc' = "container_execute"
                       /\ UNCHANGED idx
    /\ UNCHANGED <<observed, repoVars, latestCommitHash, lastCommitHash, changes, repoConfig,
                   tmpfileName, fileVars, tick>>

\* dockerPlugin.Run, the final update and the log file (run.go:569-615).
ContainerExecute ==
    /\ pc = "container_execute"
    /\ LET statusKey == StatusKey(Change.toName)
           containerName == ContainerName(Change.toName)
           logDir == LogDirOf(repoConfig, globalConfig)
       IN  \E buildOK \in BOOLEAN, runOK \in BOOLEAN, saveErr \in BOOLEAN, logErr \in BOOLEAN :
              LET r == DockerRun(buildOK, repoConfig.DockerAutoRun, runOK)
              IN  /\ Update(statusKey,
                            IF r.err THEN StatusRunFailed ELSE StatusRunSucceeded, saveErr)
                  /\ Mark([run |-> IF r.err THEN "err" ELSE "ok", updates |-> Updated,
                           logged |-> logDir # ""])
                  /\ logs' = IF logDir # ""
                             THEN WriteLog(logs, ContainerLogFile(logDir, containerName),
                                           lintOutput, r.out, logErr)
                             ELSE logs
    /\ lintOutput' = <<>>
    /\ idx' = idx + 1
    /\ pc' = "change"
    /\ UNCHANGED <<observed, repoVars, latestCommitHash, lastCommitHash, changes, repoConfig,
                   tmpfileName, tmpFiles, tick>>

\* ------------------------------------------------------------ specification

Next ==
    \/ Commit
    \/ Fetch
    \/ LoadCommit
    \/ ShellDiscover
    \/ ShellRead
    \/ ShellValidate
    \/ ShellExecute
    \/ ContainerDiscover
    \/ NotContainer
    \/ ContainerValidate
    \/ ContainerExecute
    \/ EndPass
    \/ Sleep

Spec == Init /\ [][Next]_vars

SpecStartup == InitStartup /\ [][Next]_vars

\* ------------------------------------------------------------ classifiers

\* Paths a change may carry: shell scripts and near misses, container files
\* and near misses.
CandidatePath ==
    [deploySh |-> <<"d", "e", "p", "l", "o", "y", ".", "s", "h">>,
     setupSh |-> <<"s", "c", "r", "i", "p", "t", "s", "/", "s", "e", "t", "u", "p", ".", "s", "h">>,
     dotSh |-> <<".", "s", "h">>,
     bak |-> <<"d", "e", "p", "l", "o", "y", ".", "s", "h", ".", "b", "a", "k">>,
     sh |-> <<"s", "h">>,
     noDot |-> <<"d", "e", "p", "l", "o", "y", "s", "h">>,
     upperSh |-> <<"d", "e", "p", "l", "o", "y", ".", "S", "H">>,
     webapp |-> <<"C", "o", "n", "t", "a", "i", "n", "e", "r", "s", "/", "w", "e", "b", "a", "p", "p", "/", "D", "o", "c", "k", "e", "r", "f", "i", "l", "e">>,
     lowerApi |-> <<"c", "o", "n", "t", "a", "i", "n", "e", "r", "s", "/", "a", "p", "i", "/", "C", "o", "n", "t", "a", "i", "n", "e", "r", "f", "i", "l", "e">>,
     upperApi |-> <<"C", "O", "N", "T", "A", "I", "N", "E", "R", "S", "/", "a", "p", "i", "/", "D", "o", "c", "k", "e", "r", "f", "i", "l", "e">>,
     lowerBase |-> <<"C", "o", "n", "t", "a", "i", "n", "e", "r", "s", "/", "w", "e", "b", "a", "p", "p", "/", "d", "o", "c", "k", "e", "r", "f", "i", "l", "e">>,
     dev |-> <<"C", "o", "n", "t", "a", "i", "n", "e", "r", "s", "/", "w", "e", "b", "a", "p", "p", "/", "D", "o", "c", "k", "e", "r", "f", "i", "l", "e", ".", "d", "e", "v">>,
     top |-> <<"C", "o", "n", "t", "a", "i", "n", "e", "r", "s", "/", "D", "o", "c", "k", "e", "r", "f", "i", "l", "e">>,
     nested |-> <<"d", "o", "c", "k", "e", "r", "/", "C", "o", "n", "t", "a", "i", "n", "e", "r", "s", "/", "w", "e", "b", "/", "D", "o", "c", "k", "e", "r", "f", "i", "l", "e">>,
     runSh |-> <<"C", "o", "n", "t", "a", "i", "n", "e", "r", "s", "/", "w", "e", "b", "a", "p", "p", "/", "r", "u", "n", ".", "s", "h">>,
     bare |-> <<"D", "o", "c", "k", "e", "r", "f", "i", "l", "e">>,
     prefix |-> <<"C", "o", "n", "t", "a", "i", "n", "e", "r", "s", "X", "/", "w", "e", "b", "/", "D", "o", "c", "k", "e", "r", "f", "i", "l", "e">>,
     deep |-> <<"C", "o", "n", "t", "a", "i", "n", "e", "r", "s", "/", "a", "/", "b", "/", "D", "o", "c", "k", "e", "r", "f", "i", "l", "e">>,
     readme |-> <<"R", "E", "A", "D", "M", "E", ".", "m", "d">>,
     toolsSetupSh |-> <<"t", "o", "o", "l", "s", "/", "s", "e", "t", "u", "p", ".", "s", "h">>,
     colonSh |-> <<"c", "o", "n", "t", "a", "i", "n", "e", "r", ":", "w", "e", "b", ".", "s", "h">>,
     shDir |-> <<"C", "o", "n", "t", "a", "i", "n", "e", "r", "s", "/", "w", "e", "b", ".", "s", "h", "/", "D", "o", "c", "k", "e", "r", "f", "i", "l", "e">>,
     sibling |-> <<"C", "o", "n", "t", "a", "i", "n", "e", "r", "s", "/", "w", "e", "b", "a", "p", "p", "/", "C", "o", "n", "t", "a", "i", "n", "e", "r", "f", "i", "l", "e">>,
     depth |-> <<"C", "o", "n", "t", "a", "i", "n", "e", "r", "s", "/", "a", "/", "w", "e", "b", "a", "p", "p", "/", "D", "o", "c", "k", "e", "r", "f", "i", "l", "e">>]

CandidatePaths == {CandidatePath[n] : n \in DOMAIN CandidatePath}

\* One change of a diff: a file added, changed or removed.  To.Name is empty
\* for a removal, From.Name for an addition.
Inserted(path) == [action |-> "Insert", fromName |-> <<>>, toName |-> path]
Modified(path) == [action |-> "Modify", fromName |-> path, toName |-> path]
Deleted(path) == [action |-> "Delete", fromName |-> path, toName |-> <<>>]

\* object.DiffTree detects no renames: a file renamed from `old` to `new`
\* comes as the removal of old and the addition of new.
RenameDiff(old, new) == <<Deleted(old), Inserted(new)>>

ClassifyInputs ==
    {<<Inserted(q)>> : q \in CandidatePaths}
    \cup {<<Modified(q)>> : q \in CandidatePaths}
    \cup {<<Deleted(q)>> : q \in CandidatePaths}
    \cup {RenameDiff(o, n) : <<o, n>> \in {x \in CandidatePaths \X CandidatePaths : x[1] # x[2]}}

\* The loop over a diff's changes, reduced to the two classifiers.
InitClassify ==
    /\ changes \in ClassifyInputs
    /\ commits = <<EmptyTree>>
    /\ \E c \in StartupConfigs :
          globalConfig = c.global /\ repoConfigFile = c.repo /\ repoConfig = c.repo
    /\ pc = "classify"
    /\ latestCommitHash = ZeroHash
    /\ lastCommitHash = StartupHash(1)
    /\ idx = 1
    /\ lintOutput = <<>>
    /\ tmpfileName = 0
    /\ status = NoStatus
    /\ statusFile = NoFile
    /\ scriptsNil = FALSE
    /\ tmpFiles = {}
    /\ logs = [f \in {} |-> 0]
    /\ now = 1
    /\ hist = [k \in {} |-> 0]
    /\ trace = <<>>
    /\ tick = "none"
    /\ observed = <<>>

\* if isNewShellScript(change) { ... } and, the docker plugin being enabled,
\* if isNewOrModifiedContainerFile(change) { ... }: what the two say of the
\* change at hand.
Classify ==
    /\ pc = "classify"
    /\ idx <= Len(changes)
    /\ trace' = Append(trace, [shell |-> isNewShellScript(Change),
                               container |-> DockerOn /\ isNewOrModifiedContainerFile(Change)])
    /\ idx' = idx + 1
    /\ pc' = IF idx' > Len(changes) THEN "classified" ELSE "classify"
    /\ UNCHANGED <<observed, repoVars, latestCommitHash, lastCommitHash, changes, repoConfig,
                   lintOutput, tmpfileName, storeVars, fileVars, tick>>

NextClassify == Classify

SpecClassify == InitClassify /\ [][NextClassify]_vars

\* ------------------------------------------------------- concurrent reader

MaxReads == 2

\* The update calls runCmd makes for one script that validates and runs
\* (run.go:405, 470, 491), each followed by SaveStatus.
StoreCalls == <<StatusPending, StatusLintPassed, StatusRunSucceeded>>
StoreKey == PathDeploy

\* The number of the next call of StoreCalls.
NextCall == IF StoreKey \in DOMAIN hist THEN hist[StoreKey].updates + 1 ELSE 1

\* The record of StoreKey before and after the update under way.
RecordBefore == GetScriptStatus(status, StoreKey).s
RecordAfter ==
    UpdateScriptStatus(status, StoreKey, StoreCalls[NextCall].lint, StoreCalls[NextCall].test,
                       StoreCalls[NextCall].run, StoreCalls[NextCall].overall, now)[StoreKey]

\* A map entry caught half written: some fields of the new record, the
\* others still of the old one.
TornRecord(before, after) ==
    [after EXCEPT !.OverallStatus = before.OverallStatus, !.Timestamp = before.Timestamp]

\* s.Scripts[name] read while another goroutine is inside the assignment
\* s.Scripts[name] = ScriptStatus{...}.  Status holds the map and no lock and
\* UpdateScriptStatus takes none, so this is a data race: the runtime stops
\* the process ("concurrent map read and map write"), or the read yields the
\* old entry, the new entry, or a half-written one.
RacingRead(before, after) ==
    {[what |-> "fatal", got |-> before, before |-> before, after |-> after],
     [what |-> "record", got |-> before, before |-> before, after |-> after],
     [what |-> "record", got |-> after, before |-> before, after |-> after],
     [what |-> "record", got |-> TornRecord(before, after), before |-> before, after |-> after]}

\* The poll loop about to make its store calls for one script, and a reader.
InitConcurrent ==
    /\ commits = <<EmptyTree>>
    /\ \E c \in StartupConfigs :
          globalConfig = c.global /\ repoConfigFile = c.repo /\ repoConfig = c.repo
    /\ pc = "update"
    /\ latestCommitHash = ZeroHash
    /\ lastCommitHash = StartupHash(1)
    /\ changes = <<>>
    /\ idx = 1
    /\ lintOutput = <<>>
    /\ tmpfileName = 0
    /\ status = NoStatus
    /\ statusFile = NoFile
    /\ scriptsNil = FALSE
    /\ tmpFiles = {}
    /\ logs = [f \in {} |-> 0]
    /\ now = 1
    /\ hist = [k \in {} |-> 0]
    /\ trace = <<>>
    /\ tick = "none"
    /\ observed = <<>>

\* UpdateScriptStatus enters the map assignment.
UpdateBegin ==
    /\ pc = "update"
    /\ NextCall <= Len(StoreCalls)
    /\ pc' = "updating"
    /\ UNCHANGED <<observed, repoVars, latestCommitHash, lastCommitHash, changes, idx,
                   repoConfig, lintOutput, tmpfileName, storeVars, fileVars, trace, tick>>

\* The map assignment is done and UpdateScriptStatus returns.
UpdateEnd ==
    /\ pc = "updating"
    /\ status' = UpdateScriptStatus(status, StoreKey, StoreCalls[NextCall].lint,
                                    StoreCalls[NextCall].test, StoreCalls[NextCall].run,
                                    StoreCalls[NextCall].overall, now)
    /\ now' = now + 1
    /\ pc' = "save"
    /\ UNCHANGED <<observed, repoVars, latestCommitHash, lastCommitHash, changes, idx,
                   repoConfig, lintOutput, tmpfileName, statusFile, scriptsNil, hist, fileVars,
                   trace, tick>>

\* status.SaveStatus("."), after which the loop goes on to its next update.
Persist ==
    /\ pc = "save"
    /\ \E ioErr \in BOOLEAN : statusFile' = SaveStatus(statusFile, status, scriptsNil, RepoPath, ioErr)
    /\ hist' = [k \in DOMAIN hist \cup {StoreKey} |->
                  IF k # StoreKey THEN hist[k]
                  ELSE [updates |-> NextCall, saves |-> NextCall,
                        first |-> IF StoreKey \in DOMAIN hist THEN hist[StoreKey].first
                                  ELSE now - 1]]
    /\ pc' = IF NextCall = Len(StoreCalls) THEN "stored" ELSE "update"
    /\ UNCHANGED <<observed, repoVars, latestCommitHash, lastCommitHash, changes, idx,
                   repoConfig, lintOutput, tmpfileName, status, scriptsNil, now, fileVars,
                   trace, tick>>

\* A reader calls status.GetScriptStatus(StoreKey).
Get ==
    /\ pc # "crashed"
    /\ Len(observed) < MaxReads
    /\ IF pc = "updating"
       THEN \E o \in RacingRead(RecordBefore, RecordAfter) :
               /\ observed' = Append(observed, o)
               /\ pc' = IF o.what = "fatal" THEN "crashed" ELSE pc
       ELSE /\ observed' = Append(observed, [what |-> "record", got |-> RecordBefore,
                                             before |-> RecordBefore, after |-> RecordBefore])
            /\ UNCHANGED pc
    /\ UNCHANGED <<repoVars, latestCommitHash, lastCommitHash, changes, idx,
                   repoConfig, lintOutput, tmpfileName, storeVars, fileVars, trace, tick>>

\* A reader reads .buenosaires/status.json.
ViewSnapshot ==
    /\ pc # "crashed"
    /\ Len(observed) < MaxReads
    /\ observed' = Append(observed, [what |-> "snapshot", got |-> statusFile,
                                     before |-> statusFile, after |-> statusFile])
    /\ UNCHANGED <<repoVars, loopVars, storeVars, fileVars, trace, tick>>

NextConcurrent ==
    \/ UpdateBegin
    \/ UpdateEnd
    \/ Persist
    \/ Get
    \/ ViewSnapshot

SpecConcurrent == InitConcurrent /\ [][NextConcurrent]_vars

\* ------------------------------------------------------ store and its file

MaxUpdates == 2

\* A script whose file name holds a byte that is no valid UTF-8.
PathLegacy == <<"c", "a", "f", InvalidByte, ".", "s", "h">>

\* The identifiers the updates are made for.
StoreKeys == {PathDeploy, StatusKey(PathWebapp), PathLegacy}

\* The repository paths LoadStatus and SaveStatus are called with: the one
\* runCmd passes, and others.
RepoPaths == {RepoPath, "..", "./", "repo/", "repo"}

\* What the store may find at its file when it is loaded.
StoreFiles ==
    {NoFile, Malformed, Document("missing", NoStatus), Document("null", NoStatus),
     Document("object", NoStatus),
     Document("object",
              [k \in {PathDeploy} |->
                  MarshalScriptStatus([LintStatus |-> "success", TestStatus |-> "skipped",
                                       RunStatus |-> "success", Timestamp |-> 0,
                                       OverallStatus |-> "success"])])}

\* Before LoadStatus is called.
InitStore ==
    /\ commits = <<EmptyTree>>
    /\ \E c \in StartupConfigs :
          globalConfig = c.global /\ repoConfigFile = c.repo /\ repoConfig = c.repo
    /\ pc = "load"
    /\ latestCommitHash = ZeroHash
    /\ lastCommitHash = ZeroHash
    /\ changes = <<>>
    /\ idx = 1
    /\ lintOutput = <<>>
    /\ tmpfileName = 0
    /\ status = NoStatus
    /\ statusFile \in StoreFiles
    /\ scriptsNil = FALSE
    /\ tmpFiles = {}
    /\ logs = [f \in {} |-> 0]
    /\ now = 1
    /\ hist = [k \in {} |-> 0]
    /\ trace = <<>>
    /\ tick = "none"
    /\ observed = <<>>

\* status.LoadStatus(repoPath), at startup or after a SaveStatus that wrote
\* the file.
StoreLoad ==
    /\ pc \in {"load", "saved"}
    /\ \E repoPath \in RepoPaths, ioErr \in BOOLEAN :
          LET r == LoadStatus(statusFile, repoPath, ioErr)
          IN  /\ observed' = Append(observed,
                     [path |-> repoPath, file |-> statusFile, afterSave |-> pc = "saved",
                      prior |-> status, err |-> r.err, Scripts |-> r.Scripts,
                      isNil |-> r.isNil])
              /\ IF r.err
                 THEN pc' = "load_failed" /\ UNCHANGED <<status, scriptsNil>>
                 ELSE /\ status' = r.Scripts
                      /\ scriptsNil' = r.isNil
                      /\ pc' = IF pc = "saved" THEN "reloaded" ELSE "loaded"
    /\ UNCHANGED <<repoVars, latestCommitHash, lastCommitHash, changes, idx, repoConfig,
                   lintOutput, tmpfileName, statusFile, now, hist, fileVars, trace, tick>>

\* s.UpdateScriptStatus(key, ...) on the loaded store.  An assignment to an
\* entry of a nil map panics.
StoreUpdate ==
    /\ pc = "loaded"
    /\ now <= MaxUpdates
    /\ \E key \in StoreKeys, st \in {StatusPending, StatusRunSucceeded} :
          IF scriptsNil
          THEN pc' = "panicked" /\ UNCHANGED <<status, now, hist>>
          ELSE /\ status' = UpdateScriptStatus(status, key, st.lint, st.test, st.run,
                                               st.overall, now)
               /\ now' = now + 1
               /\ hist' = Called(key, 0)
               /\ UNCHANGED pc
    /\ UNCHANGED <<observed, repoVars, latestCommitHash, lastCommitHash, changes, idx,
                   repoConfig, lintOutput, tmpfileName, statusFile, scriptsNil, fileVars,
                   trace, tick>>

\* s.SaveStatus(repoPath) on the loaded store.
StoreSave ==
    /\ pc = "loaded"
    /\ \E repoPath \in RepoPaths, ioErr \in BOOLEAN :
          /\ statusFile' = SaveStatus(statusFile, status, scriptsNil, repoPath, ioErr)
          /\ pc' = IF GetStatusFilePathErr(repoPath) \/ ioErr THEN "loaded" ELSE "saved"
    /\ UNCHANGED <<observed, repoVars, latestCommitHash, lastCommitHash, changes, idx,
                   repoConfig, lintOutput, tmpfileName, status, scriptsNil, now, hist,
                   fileVars, trace, tick>>

NextStore ==
    \/ StoreLoad
    \/ StoreUpdate
    \/ StoreSave

SpecStore == InitStore /\ [][NextStore]_vars

\* ------------------------------------------------------- plugins, called

MaxCalls == 2

\* Nothing has been called yet.
InitPlugins ==
    /\ commits = <<EmptyTree>>
    /\ \E c \in StartupConfigs :
          globalConfig = c.global /\ repoConfigFile = c.repo /\ repoConfig = c.repo
    /\ pc = "call"
    /\ latestCommitHash = ZeroHash
    /\ lastCommitHash = ZeroHash
    /\ changes = <<>>
    /\ idx = 1
    /\ lintOutput = <<>>
    /\ tmpfileName = 0
    /\ status = NoStatus
    /\ statusFile = NoFile
    /\ scriptsNil = FALSE
    /\ tmpFiles = {}
    /\ logs = [f \in {} |-> 0]
    /\ now = 1
    /\ hist = [k \in {} |-> 0]
    /\ trace = <<>>
    /\ tick = "none"
    /\ observed = <<>>

\* plugin.LintAndValidate(scriptPath) of the shell plugin, with the two tools
\* ending in every way.
CallShellLintAndValidate ==
    /\ pc = "call"
    /\ Len(observed) < MaxCalls
    /\ \E syntaxOK \in BOOLEAN, shellcheck \in ShellcheckOutcomes :
          LET r == ShellLintAndValidate(syntaxOK, shellcheck)
          IN  observed' = Append(observed,
                  [fn |-> "ShellPlugin.LintAndValidate", syntaxOK |-> syntaxOK,
                   tool |-> shellcheck, autoRun |-> FALSE, out |-> r.out, err |-> r.err,
                   started |-> FALSE, elapsed |-> 0])
    /\ UNCHANGED <<repoVars, loopVars, storeVars, fileVars, trace, tick>>

\* dockerPlugin.Run(path, name, tag, autoRun), with docker build and docker
\* run ending in every way.
CallDockerRun ==
    /\ pc = "call"
    /\ Len(observed) < MaxCalls
    /\ \E buildOK \in BOOLEAN, autoRun \in BOOLEAN, runOK \in BOOLEAN :
          LET r == DockerRun(buildOK, autoRun, runOK)
          IN  observed' = Append(observed,
                  [fn |-> "DockerPlugin.Run", syntaxOK |-> buildOK,
                   tool |-> IF runOK THEN "exit0" ELSE "exit1", autoRun |-> autoRun,
                   out |-> r.out, err |-> r.err, started |-> r.started, elapsed |-> 0])
    /\ UNCHANGED <<repoVars, loopVars, storeVars, fileVars, trace, tick>>

\* DefaultScriptTimeout = 5 * time.Minute, in seconds.
DefaultScriptTimeout == 300

\* plugin.Run(scriptPath, allowSudo) of the shell plugin, the script ending
\* after `elapsed` seconds with exit status 0 or not.  The command is made
\* with exec.Command, without the context of run.go:456, and
\* cmd.CombinedOutput waits for the script to end however long it takes.
CallShellRun ==
    /\ pc = "call"
    /\ Len(observed) < MaxCalls
    /\ \E allowSudo \in BOOLEAN, exitOK \in BOOLEAN,
          elapsed \in {1, DefaultScriptTimeout + 1} :
          LET r == ShellRun(allowSudo, exitOK)
          IN  observed' = Append(observed,
                  [fn |-> "ShellPlugin.Run", syntaxOK |-> TRUE,
                   tool |-> IF exitOK THEN "exit0" ELSE "exit1", autoRun |-> allowSudo,
                   out |-> r.out, err |-> r.err, started |-> TRUE, elapsed |-> elapsed])
    /\ UNCHANGED <<repoVars, loopVars, storeVars, fileVars, trace, tick>>

NextPlugins ==
    \/ CallShellLintAndValidate
    \/ CallDockerRun
    \/ CallShellRun

SpecPlugins == InitPlugins /\ [][NextPlugins]_vars

\* ------------------------------------------------------------------ startup

\* runCmd is entered: the branch holds some tree, the status file is in some
\* state, nothing is loaded yet.
InitBoot ==
    /\ commits \in {<<t>> : t \in Trees}
    /\ \E c \in Configs : globalConfig = c.global /\ repoConfigFile = c.repo
    /\ pc = "load_global_config"
    /\ latestCommitHash = ZeroHash
    /\ lastCommitHash = ZeroHash
    /\ changes = <<>>
    /\ idx = 1
    /\ repoConfig = ZeroRepoConfig
    /\ lintOutput = <<>>
    /\ tmpfileName = 0
    /\ status = NoStatus
    /\ statusFile \in StoreFiles
    /\ scriptsNil = FALSE
    /\ tmpFiles = {}
    /\ logs = [f \in {} |-> 0]
    /\ now = 1
    /\ hist = [k \in {} |-> 0]
    /\ trace = <<>>
    /\ tick = "none"
    /\ observed = <<>>

\* config.LoadGlobalConfig(); log.Fatalf on an error (run.go:284-287).
LoadGlobalConfig ==
    /\ pc = "load_global_config"
    /\ \E err \in BOOLEAN : pc' = IF err THEN "fatal_global_config" ELSE "load_status"
    /\ UNCHANGED <<observed, repoVars, latestCommitHash, lastCommitHash, changes, idx,
                   repoConfig, lintOutput, tmpfileName, storeVars, fileVars, trace, tick>>

\* status.LoadStatus("."); log.Fatalf on an error (run.go:290-293).  Without
\* an error runCmd goes on to the web server and the repository.
LoadStatusAtStartup ==
    /\ pc = "load_status"
    /\ \E ioErr \in BOOLEAN :
          LET r == LoadStatus(statusFile, RepoPath, ioErr)
          IN  IF r.err
              THEN pc' = "fatal_load_status" /\ UNCHANGED <<status, scriptsNil>>
              ELSE /\ status' = r.Scripts
                   /\ scriptsNil' = r.isNil
                   /\ pc' = "start_server"
    /\ UNCHANGED <<observed, repoVars, latestCommitHash, lastCommitHash, changes, idx,
                   repoConfig, lintOutput, tmpfileName, statusFile, now, hist, fileVars,
                   trace, tick>>

NextBoot ==
    \/ LoadGlobalConfig
    \/ LoadStatusAtStartup

SpecBoot == InitBoot /\ [][NextBoot]_vars

\* ------------------------------------------------------------------ claims

\* The identifier under which a change is recorded: scriptName for a shell
\* script, statusKey for a container file.
IdOf(change) ==
    IF isNewShellScript(change) THEN change.toName ELSE StatusKey(change.toName)

\* The changes the pipeline takes up in this pass.
Qualifies(change) ==
    isNewShellScript(change) \/ (DockerOn /\ isNewOrModifiedContainerFile(change))

Untouched(t) ==
    /\ t.updates = 0
    /\ t.read = "none"
    /\ t.tmp = "none"
    /\ t.validate = "none"
    /\ t.run = "none"
    /\ ~t.logged

RecordedAs(id, st) ==
    /\ id \in DOMAIN status
    /\ status[id].LintStatus = st.lint
    /\ status[id].RunStatus = st.run
    /\ status[id].OverallStatus = st.overall

Inv_C2 ==
    \A i \in 1..Len(trace) :
        /\ trace[i].run # "none" => trace[i].validate = "ok"
        /\ trace[i].validate = "err" =>
              /\ trace[i].run = "none"
              /\ RecordedAs(IdOf(changes[i]),
                            [lint |-> "failure", run |-> "pending", overall |-> "failure"])

\* One artifact of the pass failed validation, another was executed.
Witness_C2 ==
    \E i, j \in 1..Len(trace) :
        /\ trace[i].validate = "err"
        /\ trace[j].validate = "ok"
        /\ trace[j].run = "ok"

\* C3: when a pass is complete, lastCommitHash is the tip the pass was run
\* for, whatever happened to its artifacts.
Inv_C3 ==
    tick = "pass" => lastCommitHash = latestCommitHash /\ latestCommitHash = Len(commits)

\* A pass is complete in which one artifact failed validation and another
\* was refused for its size.
Witness_C3 ==
    /\ tick = "pass"
    /\ lastCommitHash = latestCommitHash
    /\ \E i, j \in 1..Len(trace) :
          /\ trace[i].validate = "err"
          /\ trace[j].read = "ok"
          /\ trace[j].tmp = "none"
          /\ trace[j].updates = 2

\* C4 as claimed: lastCommitHash changes only in the step that ends a pass.
Orig_C4 == [][lastCommitHash' # lastCommitHash => tick' = "pass"]_vars

\* C4 as amended: lastCommitHash changes only to the tip resolved in this
\* tick, either at the end of a pass that went through every change of the
\* change set, or where the commit, a tree or the diff could not be obtained,
\* and there no artifact is processed.
Thm_C4 ==
    [][lastCommitHash' # lastCommitHash =>
          /\ lastCommitHash' = latestCommitHash
          /\ latestCommitHash = Len(commits)
          /\ \/ /\ tick' = "pass"
                /\ idx > Len(changes)
                /\ \A i \in 1..Len(changes) :
                      Qualifies(changes[i]) => trace[i].disposition # "none"
             \/ /\ tick' = "loaderr"
                /\ pc = "commit"
                /\ UNCHANGED <<status, statusFile, logs, tmpFiles, trace, changes>>]_vars

\* The commit of the new tip could not be loaded and lastCommitHash is the
\* new tip all the same.
Witness_C4 ==
    /\ tick = "loaderr"
    /\ lastCommitHash = latestCommitHash
    /\ lastCommitHash > 1
    /\ trace = <<>>

\* C5: a tick that resolves a tip equal to lastCommitHash goes to sleep with
\* the status store, the snapshot file, the log directory and lastCommitHash
\* as they were, and nothing changes them before the next tick.
Thm_C5 ==
    [][/\ (pc = "fetch" /\ pc' # "fetch" /\ latestCommitHash' # ZeroHash
              /\ latestCommitHash' = lastCommitHash) =>
             /\ pc' = "sleep"
             /\ tick' = "same"
             /\ UNCHANGED <<status, statusFile, logs, tmpFiles, lastCommitHash,
                            changes, trace, now>>
       /\ tick = "same" =>
             /\ pc = "sleep"
             /\ UNCHANGED <<status, statusFile, logs, tmpFiles, lastCommitHash, now>>]_vars

\* The tip is the processed commit while an artifact stands as failed.
Witness_C5 ==
    /\ tick = "same"
    /\ pc = "sleep"
    /\ \E id \in DOMAIN status : status[id].OverallStatus = "failure"

Inv_C7 ==
    \A i \in 1..Len(trace) :
        (isNewShellScript(changes[i]) /\ trace[i].read = "ok") =>
            IF TreeFile(LatestTree, changes[i].toName) > MaxScriptSize
            THEN /\ trace[i].tmp = "none"
                 /\ trace[i].validate = "none"
                 /\ trace[i].run = "none"
                 /\ RecordedAs(changes[i].toName,
                               [lint |-> "failure", run |-> "pending", overall |-> "failure"])
            ELSE trace[i].tmp # "none"

\* A script one byte over the limit has been refused.
Witness_C7 ==
    \E i \in 1..Len(trace) :
        /\ isNewShellScript(changes[i])
        /\ trace[i].read = "ok"
        /\ TreeFile(LatestTree, changes[i].toName) = MaxScriptSize + 1
        /\ status[changes[i].toName].OverallStatus = "failure"
        /\ idx > i

\* C8 as claimed: the record of every identifier holds a generation, equal
\* to the number of update calls made for the identifier.
Orig_C8 ==
    \A id \in DOMAIN hist :
        /\ "Generation" \in DOMAIN status[id]
        /\ status[id].Generation = hist[id].updates

\* C9 as claimed: the record of every identifier holds the time of the first
\* update call made for the identifier.
Orig_C9 ==
    \A id \in DOMAIN hist :
        /\ "FirstDeployDate" \in DOMAIN status[id]
        /\ status[id].FirstDeployDate = hist[id].first

\* C10: in every record, overall=success implies lint=success and
\* run=success, and overall=failure holds exactly when lint or run is failure.
Inv_C10 ==
    \A id \in DOMAIN status :
        /\ status[id].OverallStatus = "success" =>
              status[id].LintStatus = "success" /\ status[id].RunStatus = "success"
        /\ status[id].OverallStatus = "failure" <=>
              (status[id].LintStatus = "failure" \/ status[id].RunStatus = "failure")

\* One identifier stands as succeeded, another as failed in execution.
Witness_C10 ==
    \E a, b \in DOMAIN status :
        /\ status[a].OverallStatus = "success"
        /\ status[b].OverallStatus = "failure"
        /\ status[b].RunStatus = "failure"

\* The log file the pipeline writes for a change.
LogFileOf(change) ==
    IF isNewShellScript(change)
    THEN ShellLogFile(LogDirOf(repoConfig, globalConfig), change.toName)
    ELSE ContainerLogFile(LogDirOf(repoConfig, globalConfig), ContainerName(change.toName))

\* C11 as claimed: after a new shell script with an unseen identifier was
\* validated and executed with success, its record has overall status
\* success and generation 1.
Orig_C11 ==
    \A i \in 1..Len(trace) :
        (isNewShellScript(changes[i]) /\ trace[i].seen = "absent" /\ trace[i].run = "ok") =>
            /\ RecordedAs(changes[i].toName,
                          [lint |-> "success", run |-> "success", overall |-> "success"])
            /\ "Generation" \in DOMAIN status[changes[i].toName]
            /\ status[changes[i].toName].Generation = 1

\* C12 as claimed: a modified container file whose identifier stands as
\* succeeded is validated again once the pipeline has dealt with it.
Orig_C12 ==
    \A i \in 1..Len(trace) :
        (/\ changes[i].action = "Modify"
         /\ Qualifies(changes[i])
         /\ trace[i].seen = "success"
         /\ idx > i) => trace[i].validate # "none"

\* C17: no temporary file exists when the loop is between two changes, at
\* the container check, at the end of the pass or between two ticks, and at
\* most one exists at any time.
Inv_C17 ==
    /\ Cardinality(tmpFiles) <= 1
    /\ pc \in {"fetch", "commit", "change", "container", "container_validate",
               "container_execute", "sleep"} => tmpFiles = {}
    /\ tmpFiles # {} => tmpFiles = {tmpfileName}

\* A script is processed for the second time (more than three update calls
\* were made for it), its temporary file was created and validated, and no
\* temporary file is left.
Witness_C17 ==
    /\ pc \in {"change", "container"}
    /\ tmpFiles = {}
    /\ \E i \in 1..Len(trace) : trace[i].tmp = "created" /\ trace[i].validate # "none"
    /\ PathDeploy \in DOMAIN hist
    /\ hist[PathDeploy].updates > 3

\* C18 as claimed: with a log directory configured, the artifact whose
\* validation failed has its log file written.
Orig_C18 ==
    \A i \in 1..Len(trace) :
        (/\ trace[i].validate = "err"
         /\ LogDirOf(repoConfig, globalConfig) # ""
         /\ idx > i) =>
            trace[i].logged /\ LogFileOf(changes[i]) \in DOMAIN logs

\* The steps that start an external tool (bash, shellcheck, hadolint, docker).
AtToolStart ==
    pc \in {"shell_validate", "shell_execute", "container_validate", "container_execute"}

KeptSinceStartup == {p \in 1..Len(PathOrder) : \A h \in 1..Len(commits) : commits[h][p] # NoBlob}

\* Commit h changed path p in a way a classifier accepts, giving identifier id.
Triggered(id, h, p) ==
    LET c == ChangeOf(commits[h - 1], commits[h], p)
    IN  /\ commits[h - 1][p] # commits[h][p]
        /\ isNewShellScript(c) \/ isNewOrModifiedContainerFile(c)
        /\ IdOf(c) = id

\* C13 as claimed: once a tick has run to its end, every shell script that
\* was in the tree at startup (and still is) has been taken up by the pipeline.
Orig_C13 ==
    tick \in {"same", "pass"} =>
        \A p \in KeptSinceStartup :
            HasSuffix(PathOrder[p], DotSh) => PathOrder[p] \in DOMAIN status

\* C13 as amended: lastCommitHash is never absent, a pass works on the diff
\* between the tree of lastCommitHash and the tree of the tip, and every
\* identifier of the status store comes from a change made by a commit after
\* startup.
Inv_C13 ==
    /\ lastCommitHash # ZeroHash
    /\ pc \notin {"fetch", "commit", "sleep"} =>
          changes = DiffTree(commits[lastCommitHash], LatestTree)
    /\ \A id \in DOMAIN status :
          \E h \in 2..Len(commits), p \in 1..Len(PathOrder) : Triggered(id, h, p)

\* A pass is complete, the script that was there at startup is still in the
\* tip's tree, and only the other artifact has a record.
Witness_C13 ==
    /\ tick = "pass"
    /\ 2 \in KeptSinceStartup
    /\ PathDeploy \notin DOMAIN status
    /\ DOMAIN status # {}

\* The candidate paths, told apart by hand: those that end in ".sh", those
\* whose top-level directory is Containers or containers, those whose
\* top-level directory is Containers in any capitalisation, and those whose
\* basename is Dockerfile or Containerfile.
ShPaths ==
    {CandidatePath.deploySh, CandidatePath.setupSh, CandidatePath.dotSh, CandidatePath.runSh,
     CandidatePath.toolsSetupSh, CandidatePath.colonSh}
UnderContainers ==
    {CandidatePath.webapp, CandidatePath.lowerApi, CandidatePath.lowerBase, CandidatePath.dev,
     CandidatePath.top, CandidatePath.runSh, CandidatePath.deep, CandidatePath.shDir,
     CandidatePath.sibling, CandidatePath.depth}
UnderContainersAnyCase == UnderContainers \cup {CandidatePath.upperApi}
NamedContainerFile ==
    {CandidatePath.webapp, CandidatePath.lowerApi, CandidatePath.upperApi, CandidatePath.top,
     CandidatePath.nested, CandidatePath.bare, CandidatePath.prefix, CandidatePath.deep,
     CandidatePath.shDir, CandidatePath.sibling, CandidatePath.depth}

\* C14: a change is accepted as a shell script exactly when it is an insert
\* of a path ending in ".sh" (so never when it is a modify), and the modify
\* of Containers/webapp/Dockerfile is accepted as a container file.
Inv_C14 ==
    \A i \in 1..Len(trace) :
        /\ trace[i].shell <=>
              (changes[i].action = "Insert" /\ changes[i].toName \in ShPaths)
        /\ changes[i] = Modified(CandidatePath.webapp) => trace[i].container

\* The modify of deploy.sh has been classified, and refused.
Witness_C14 ==
    \E i \in 1..Len(trace) :
        changes[i] = Modified(CandidatePath.deploySh) /\ ~trace[i].shell

\* C15 as claimed: a change is accepted as a container file exactly when it
\* is an insert or a modify, its top-level directory is Containers in any
\* capitalisation, and its basename is Dockerfile or Containerfile.
Orig_C15 ==
    \A i \in 1..Len(trace) :
        trace[i].container <=>
            /\ changes[i].action \in {"Insert", "Modify"}
            /\ changes[i].toName \in UnderContainersAnyCase
            /\ changes[i].toName \in NamedContainerFile

\* C15 as amended: ... its path begins with "Containers/" or "containers/",
\* these two spellings only ...
Inv_C15 ==
    \A i \in 1..Len(trace) :
        trace[i].container <=>
            /\ changes[i].action \in {"Insert", "Modify"}
            /\ changes[i].toName \in UnderContainers
            /\ changes[i].toName \in NamedContainerFile

\* The insert of CONTAINERS/api/Dockerfile has been classified, and refused.
Witness_C15 ==
    \E i \in 1..Len(trace) :
        changes[i] = Inserted(CandidatePath.upperApi) /\ ~trace[i].container

\* C16 as claimed: no delete is accepted by a classifier, and no change of
\* the diff of a rename is.
Orig_C16 ==
    \A i \in 1..Len(trace) :
        (changes[i].action = "Delete" \/ Len(changes) = 2) =>
            ~trace[i].shell /\ ~trace[i].container

\* C16 as amended: no delete is accepted by a classifier; of the diff of a
\* rename, the delete of the old path is refused and the insert of the new
\* path is accepted exactly as any insert of that path is.
Inv_C16 ==
    \A i \in 1..Len(trace) :
        /\ changes[i].action = "Delete" => ~trace[i].shell /\ ~trace[i].container
        /\ (Len(changes) = 2 /\ changes[i].action = "Insert") =>
              /\ trace[i].shell <=> changes[i].toName \in ShPaths
              /\ trace[i].container <=>
                    changes[i].toName \in UnderContainers \cap NamedContainerFile

\* README.md renamed to deploy.sh: the delete is refused, the insert accepted.
Witness_C16 ==
    /\ changes = RenameDiff(CandidatePath.readme, CandidatePath.deploySh)
    /\ Len(trace) = 2
    /\ ~trace[1].shell /\ ~trace[1].container
    /\ trace[2].shell

\* C19 as claimed: whatever a reader gets while the poll loop updates and
\* persists, the process goes on and the reader holds the complete record
\* (or snapshot) of before the update or the complete one of after it.
Orig_C19 ==
    \A i \in 1..Len(observed) :
        /\ observed[i].what # "fatal"
        /\ observed[i].got \in {observed[i].before, observed[i].after}

\* The record the pipeline has written last for the change it is at, by the
\* step it stands at.
StepRecord ==
    CASE pc \in {"shell_read", "shell_validate", "container_validate"} -> StatusPending
      [] pc \in {"shell_execute", "container_execute"} -> StatusLintPassed

\* C21: SaveStatus fails for every update runCmd makes (no snapshot file is
\* ever written), and yet the record in memory holds the values of the update
\* made last, and the pipeline stands at the step that follows that update:
\* reading after pending, execution after lint=success.
Inv_C21 ==
    /\ statusFile = NoFile
    /\ pc \in {"shell_read", "shell_validate", "container_validate", "shell_execute",
               "container_execute"} =>
          /\ hist[IdOf(Change)].saves >= 1
          /\ RecordedAs(IdOf(Change), StepRecord)
          /\ status[IdOf(Change)].TestStatus = StepRecord.test
    /\ \A id \in DOMAIN hist : id \in DOMAIN status /\ status[id].Timestamp < now

\* A container file is about to be built after two updates whose persist
\* failed.
Witness_C21 ==
    /\ pc = "container_execute"
    /\ statusFile = NoFile
    /\ hist[IdOf(Change)].saves = 2
    /\ RecordedAs(IdOf(Change), StatusLintPassed)

\* C22 as claimed: LoadStatus called with the path runCmd passes returns an
\* empty store and no error when there is no status file, and an error when
\* the file is malformed.
Orig_C22 ==
    \A i \in 1..Len(observed) :
        observed[i].path = RepoPath =>
            /\ observed[i].file.kind = "absent" =>
                  ~observed[i].err /\ ~observed[i].isNil /\ observed[i].Scripts = NoStatus
            /\ observed[i].file.kind = "malformed" => observed[i].err

\* C23 as claimed: on a store that LoadStatus returned without an error,
\* every UpdateScriptStatus call completes and leaves the identifier's record
\* in the store.
Orig_C23 ==
    /\ pc # "panicked"
    /\ pc = "loaded" => \A id \in DOMAIN hist : id \in DOMAIN status

\* C24 as claimed: the store loaded from the file that SaveStatus wrote has
\* the identifiers and the field values of the store that was saved.
Orig_C24 ==
    \A i \in 1..Len(observed) :
        (observed[i].afterSave /\ ~observed[i].err) =>
            /\ DOMAIN observed[i].Scripts = DOMAIN observed[i].prior
            /\ observed[i].Scripts = observed[i].prior

\* C25: a tick whose fetch fails, or whose branch reference cannot be
\* resolved, goes to sleep for the poll interval with lastCommitHash, the
\* status store, its file, the logs and the temporary files as they were; the
\* only step after it is the end of that sleep, which starts the next fetch.
Thm_C25 ==
    [][/\ (pc = "fetch" /\ tick' \in {"fetcherr", "referr"}) =>
             /\ pc' = "sleep"
             /\ SleepDuration(tick') = DefaultPollInterval
             /\ UNCHANGED <<lastCommitHash, status, statusFile, scriptsNil, logs, tmpFiles, now>>
       /\ tick \in {"fetcherr", "referr"} =>
             /\ pc = "sleep"
             /\ pc' = "fetch"
             /\ UNCHANGED <<lastCommitHash, status, statusFile, scriptsNil, logs, tmpFiles, now>>]_vars

\* The reference could not be resolved while a commit waits to be processed
\* and an artifact stands as succeeded.
Witness_C25 ==
    /\ tick = "referr"
    /\ pc = "sleep"
    /\ lastCommitHash < Len(commits)
    /\ \E id \in DOMAIN status : status[id].OverallStatus = "success"

\* C26 as claimed: the process has exited only where the global
\* configuration could not be loaded, the repository could not be opened or
\* the branch reference could not be resolved; not where the status file
\* could not be loaded.
Orig_C26 ==
    pc \in {"fatal_global_config", "fatal_load_status", "fatal_open_repository",
            "fatal_reference"} =>
        pc \in {"fatal_global_config", "fatal_open_repository", "fatal_reference"}

\* C27 as claimed: a shell script was run through sudo exactly when the
\* RepoConfig of the pass has AllowSudo, the warning was logged before every
\* such run, and in a pass whose LoadRepoConfig returned an error the script
\* was run without sudo.
Orig_C27 ==
    \A i \in 1..Len(trace) :
        trace[i].cmd # "none" =>
            /\ trace[i].cmd = "sudo bash" <=> repoConfig.AllowSudo
            /\ trace[i].cmd = "sudo bash" => trace[i].audit
            /\ trace[i].config = "err" => trace[i].cmd = "bash"

Contains(seq, x) == \E i \in 1..Len(seq) : seq[i] = x
Before(seq, x, y) == \E i, j \in 1..Len(seq) : i < j /\ seq[i] = x /\ seq[j] = y

\* C28: the shell plugin's validation begins with the syntax check; when
\* that fails the linter is not run and an error comes back; a linter exit
\* status of 0 or 1 gives no error, and the output then holds both tools'
\* output in order with 'Syntax check passed.' and 'Linting completed.'; an
\* exit status above 1 gives an error together with both tools' output.
Inv_C28 ==
    \A i \in 1..Len(observed) :
        LET o == observed[i]
        IN  o.fn = "ShellPlugin.LintAndValidate" =>
               /\ o.out[1] = "bash -n output"
               /\ ~o.syntaxOK => o.err /\ o.out = <<"bash -n output">>
               /\ (o.syntaxOK /\ o.tool \in {"exit0", "exit1"}) =>
                     /\ ~o.err
                     /\ Before(o.out, "bash -n output", "Syntax check passed.")
                     /\ Before(o.out, "Syntax check passed.", "shellcheck output")
                     /\ Before(o.out, "shellcheck output", "Linting completed.")
               /\ (o.syntaxOK /\ o.tool = "exit2") =>
                     /\ o.err
                     /\ Before(o.out, "bash -n output", "shellcheck output")
                     /\ ~Contains(o.out, "Linting completed.")

\* The linter ended with status 1 in one call and with status 2 in another.
Witness_C28 ==
    \E i, j \in 1..Len(observed) :
        /\ observed[i].fn = "ShellPlugin.LintAndValidate"
        /\ observed[j].fn = "ShellPlugin.LintAndValidate"
        /\ observed[i].syntaxOK /\ observed[i].tool = "exit1" /\ ~observed[i].err
        /\ observed[j].syntaxOK /\ observed[j].tool = "exit2" /\ observed[j].err

\* C29 as claimed: with a linter that cannot be started, validation gives no
\* error when the syntax check passed.
Orig_C29 ==
    \A i \in 1..Len(observed) :
        (/\ observed[i].fn = "ShellPlugin.LintAndValidate"
         /\ observed[i].syntaxOK
         /\ observed[i].tool = "notstarted") => ~observed[i].err

\* C30: DockerPlugin.Run begins with the build; `docker run` is reached only
\* after a successful build with autoRun; without autoRun a successful build
\* gives no error and the message that the image is ready; a failed build
\* gives an error and no container.
Inv_C30 ==
    \A i \in 1..Len(observed) :
        LET o == observed[i]
            buildOK == o.syntaxOK
        IN  o.fn = "DockerPlugin.Run" =>
               /\ o.out[1] = "=== BUILD OUTPUT ==="
               /\ (o.started \/ Contains(o.out, "=== RUN OUTPUT ===")) => buildOK /\ o.autoRun
               /\ (buildOK /\ ~o.autoRun) =>
                     /\ ~o.err
                     /\ Contains(o.out, "Container not started (auto_run disabled). Image is ready to use.")
               /\ ~buildOK => o.err

\* One build succeeded without autoRun, another failed with autoRun.
Witness_C30 ==
    \E i, j \in 1..Len(observed) :
        /\ observed[i].fn = "DockerPlugin.Run"
        /\ observed[j].fn = "DockerPlugin.Run"
        /\ observed[i].syntaxOK /\ ~observed[i].autoRun /\ ~observed[i].err
        /\ ~observed[j].syntaxOK /\ observed[j].autoRun /\ observed[j].err

\* ------------------------------------------- identifiers and log files

\* A diff of two changes to different paths: two files added, or one added
\* and one changed.
NameInputs ==
    {<<Inserted(x[1]), Inserted(x[2])>> :
        x \in {y \in CandidatePaths \X CandidatePaths : y[1] # y[2]}}
    \cup {<<Inserted(x[1]), Modified(x[2])>> :
        x \in {y \in CandidatePaths \X CandidatePaths : y[1] # y[2]}}

\* The loop over the changes of one diff, with the status store and the log
\* directory empty before it.
InitNames ==
    /\ changes \in NameInputs
    /\ commits = <<EmptyTree>>
    /\ \E c \in StartupConfigs :
          globalConfig = c.global /\ repoConfigFile = c.repo /\ repoConfig = c.repo
    /\ pc = "change"
    /\ latestCommitHash = ZeroHash
    /\ lastCommitHash = StartupHash(1)
    /\ idx = 1
    /\ lintOutput = <<>>
    /\ tmpfileName = 0
    /\ status = NoStatus
    /\ statusFile = NoFile
    /\ scriptsNil = FALSE
    /\ tmpFiles = {}
    /\ logs = [f \in {} |-> 0]
    /\ now = 1
    /\ hist = [k \in {} |-> 0]
    /\ trace = <<>>
    /\ tick = "none"
    /\ observed = <<>>

\* What the change at hand is called and where its log goes.
Named(disposition, wrote) ==
    [disposition |-> disposition, key |-> IdOf(Change), log |-> LogFileOf(Change),
     wrote |-> wrote]

\* One change taken through the loop body, the tools' results drawn freely:
\* the identifier is formed, the skip check made, the final status written
\* under the identifier and the log written under the log file's name.  A
\* failed validation writes no log.
ProcessChange ==
    /\ pc = "change"
    /\ idx <= Len(changes)
    /\ IF ~Qualifies(Change)
       THEN /\ trace' = Append(trace, Named("none", FALSE))
            /\ UNCHANGED <<storeVars, logs>>
       ELSE IF AlreadySucceeded(status, IdOf(Change))
       THEN /\ trace' = Append(trace, Named("skipped", FALSE))
            /\ UNCHANGED <<storeVars, logs>>
       ELSE \E st \in {StatusLintFailed, StatusRunFailed, StatusRunSucceeded} :
               /\ Update(IdOf(Change), st, FALSE)
               /\ trace' = Append(trace, Named(st.overall, st # StatusLintFailed))
               /\ logs' = IF st = StatusLintFailed THEN logs
                          ELSE WriteLog(logs, LogFileOf(Change), st.lint, st.run, FALSE)
    /\ idx' = Continue(idx)
    /\ pc' = IF idx' > Len(changes) THEN "done" ELSE "change"
    /\ UNCHANGED <<observed, repoVars, latestCommitHash, lastCommitHash, changes, repoConfig,
                   lintOutput, tmpfileName, tmpFiles, tick>>

NextNames == ProcessChange

SpecNames == InitNames /\ [][NextNames]_vars

\* C31 as claimed: a change taken as a shell script and a change taken as a
\* container file never have the same identifier in the status store.
Orig_C31 ==
    \A i, j \in 1..Len(trace) :
        (isNewShellScript(changes[i]) /\ isNewOrModifiedContainerFile(changes[j])
            /\ DockerOn)
        => trace[i].key # trace[j].key

\* C37 as claimed: two changes to different paths that are both taken as
\* container files have different identifiers, and none of them is skipped
\* on account of the other's success.
Orig_C37 ==
    \A i, j \in 1..Len(trace) :
        (i # j /\ DockerOn /\ isNewOrModifiedContainerFile(changes[i])
            /\ isNewOrModifiedContainerFile(changes[j]))
        => /\ trace[i].key # trace[j].key
           /\ trace[j].disposition # "skipped"

\* C32 as claimed: two changes to different paths that both had their log
\* written had it written to different files.
Orig_C32 ==
    \A i, j \in 1..Len(trace) :
        (i # j /\ trace[i].wrote /\ trace[j].wrote) => trace[i].log # trace[j].log

\* The default the documentation gives for sync_interval, in seconds.
DocumentedSyncInterval == 180

\* C33 as claimed: whenever the loop is about to sleep, on any path, the
\* duration is sync_interval of the global configuration, or 180 seconds
\* where the key is unset.
Orig_C33 ==
    pc = "sleep" =>
        SleepDuration(tick) =
            (IF globalConfig.SyncInterval = 0 THEN DocumentedSyncInterval
             ELSE globalConfig.SyncInterval)

\* C34 as claimed: an execution of a script that lasted longer than the
\* default script timeout ended with an error, whatever the script's exit
\* status, so that the artifact is recorded as failed.
Orig_C34 ==
    \A i \in 1..Len(observed) :
        (observed[i].fn = "ShellPlugin.Run" /\ observed[i].elapsed > DefaultScriptTimeout)
        => observed[i].err

\* C35 as claimed: once the loop has left a change that it took up and did
\* not skip, the record of the change's identifier has overall status
\* success or failure, whichever way the loop body was left.
Orig_C35 ==
    \A i \in 1..Len(trace) :
        (i < idx /\ trace[i].disposition = "attempted") =>
            /\ IdOf(changes[i]) \in DOMAIN status
            /\ status[IdOf(changes[i])].OverallStatus \in {"success", "failure"}

\* C39 as claimed: LintAndValidate of the shell plugin returned no error
\* only where the linter ended with exit status 0 or 1; killed by a signal
\* (exit status -1), ended with a higher status or not started, it returned
\* an error.
Orig_C39 ==
    \A i \in 1..Len(observed) :
        (observed[i].fn = "ShellPlugin.LintAndValidate" /\ observed[i].syntaxOK) =>
            (~observed[i].err <=> ExitCode(observed[i].tool) \in {0, 1}
                                    /\ observed[i].tool \notin {"killed", "notstarted"})

\* C38 as claimed: the loop comes to a fetch attempt only from startup or
\* from the sleep that ended the tick before, on whatever path that tick
\* went: standing before a fetch, no tick is left that has not had its sleep.
Orig_C38 ==
    pc = "fetch" => tick = "none"

LoopStep ==
    \/ Fetch
    \/ LoadCommit
    \/ ShellDiscover
    \/ ShellRead
    \/ ShellValidate
    \/ ShellExecute
    \/ ContainerDiscover
    \/ NotContainer
    \/ ContainerValidate
    \/ ContainerExecute
    \/ EndPass
    \/ Sleep

MaxPushes == 2

\* A commit arrives on the branch, as in Commit, up to MaxPushes of them:
\* the branch tip stops changing after the last.
Push ==
    /\ pc = "fetch"
    /\ Len(commits) < MaxPushes + 1
    /\ \E p \in 1..Len(PathOrder), b \in Blobs \cup {NoBlob} :
          /\ b # commits[Len(commits)][p]
          /\ commits' = Append(commits, [commits[Len(commits)] EXCEPT ![p] = b])
    /\ UNCHANGED <<observed, globalConfig, repoConfigFile, loopVars, storeVars, fileVars, trace, tick>>

NextProgress ==
    \/ Push
    \/ LoopStep

\* The loop keeps running: every call it makes returns and every sleep
\* ends.  Whether a call returns an error is left open, and so is whether
\* another commit arrives.
SpecProgress ==
    Boot({EmptyTree}, StartupConfigs) /\ [][NextProgress]_vars /\ WF_vars(LoopStep)

\* The loop stands between passes with the tip processed.
CaughtUp ==
    /\ lastCommitHash = Len(commits)
    /\ pc \in {"fetch", "sleep"}

\* C36 as claimed: with every call returning, lastCommitHash comes to equal
\* the tip and the loop stays outside the pipeline from then on.
Orig_C36 == <>[]CaughtUp

\* C36 as amended: every pass ends, and if fetch and reference resolution
\* succeed again and again, lastCommitHash comes to equal the tip and the
\* loop stays outside the pipeline from then on.
Thm_C36 ==
    /\ (pc = "commit") ~> (pc \in {"fetch", "sleep"})
    /\ ([]<>(tick \in {"same", "pass", "loaderr"})) => <>[]CaughtUp

\* After the last commit, with an artifact recorded, a tick has found the tip
\* unchanged.
Witness_C36 ==
    /\ Len(commits) = MaxPushes + 1
    /\ CaughtUp
    /\ tick = "same"
    /\ status # NoStatus
====
